---- MODULE Spec2Model ----
(***************************************************************************)
(* featherlog: a Datalog-style query algebra (Single / And / Or) compiled  *)
(* to SQL text plus bound parameters, rule application (head <= body) as   *)
(* INSERT ... SELECT, and a transactional cursor over an sqlite            *)
(* connection.                                                             *)
(*                                                                         *)
(* SQL text is modelled as a syntax tree (records) that keeps every        *)
(* clause the source's f-strings emit: the select list, the FROM item(s),  *)
(* the WHERE conjuncts and the positional "?" placeholders.  The engine    *)
(* (sqlite) is modelled by Prepare (syntax / name resolution) and Eval     *)
(* (bag semantics of SELECT, cross join, UNION ALL, INSERT ... SELECT).    *)
(***************************************************************************)
EXTENDS Integers, Sequences, FiniteSets, Bags, TLC

VARIABLES
    db,         \* working contents of every table: name -> bag of rows
    committed,  \* contents as of the last commit
    pc,         \* "idle" | "unit": position relative to a `with conn.cursor()`
    nrun,       \* Cursor.run calls executed in the current unit / so far
    exc,        \* exception that reached the caller last ("none" if none)
    rule,       \* the compiled rule being resubmitted (fixpoint protocol)
    stk,        \* operand stack of the Python expression being evaluated
    plan,       \* result of the last head <= body (NoPlan if none)
    call,       \* arguments of the last Relation.__call__ (NoCall if none)
    hashOrder   \* iteration order of Python sets of Var (hash seed)

vars == <<db, committed, pc, nrun, exc, rule, stk, plan, call, hashOrder>>

-----------------------------------------------------------------------------
(* Bounds *)

MaxEdges == 3       \* rows inserted into edge
MaxSub == 5         \* submissions of a rule / runs per unit
MaxLeaves == 3      \* Single nodes on the operand stack
MaxArgs == 3        \* positional arguments of one relation call

Nodes == {1, 2, 3}
NULL == 0

-----------------------------------------------------------------------------
(* Terms *)

Var(n) == [tag |-> "Var", name |-> n, val |-> NULL]
Const(c) == [tag |-> "const", name |-> "", val |-> c]
IsVar(a) == a.tag = "Var"

x == Var("x")
y == Var("y")
z == Var("z")

Range(s) == {s[i] : i \in DOMAIN s}

Min(S) == CHOOSE m \in S : \A n \in S : m <= n

\* list(S) for a Python set S of Var: some order fixed by the hash seed
SetList(S) == SelectSeq(hashOrder, LAMBDA v : v \in S)

Perms(S) == {s \in [1..Cardinality(S) -> S] : Range(s) = S}

-----------------------------------------------------------------------------
(* Relation schema *)

\* f"_x{i}" for the i-th positional column type (i from 0)
PosName == <<"_x0", "_x1", "_x2">>

make_args(args, kwargs) ==
    [i \in 1..Len(args) |-> <<PosName[i], args[i]>>] \o kwargs

Relation(name, args, distinct) ==
    [name |-> name, args |-> args, distinct |-> distinct]

col_names(rel) == [i \in 1..Len(rel.args) |-> rel.args[i][1]]

\* variant: the primary key is emitted whatever rel.distinct says
create_sql_AlwaysKey(rel) ==
    [table |-> rel.name, cols |-> col_names(rel), primaryKey |-> TRUE]

\* CREATE TABLE ... [, PRIMARY KEY (all columns)]
create_sql(rel) ==
    [table |-> rel.name, cols |-> col_names(rel), primaryKey |-> rel.distinct]

\* cur.Relation(name, x="INT", y="INT") / cur.RelationSet(...)
CursorRelation(name, args, kwargs) == Relation(name, make_args(args, kwargs), FALSE)

CursorRelationSet(name, args, kwargs) == Relation(name, make_args(args, kwargs), TRUE)

XY == << <<"x", "INT">>, <<"y", "INT">> >>
edge == CursorRelation("edge", <<>>, XY)
path == CursorRelationSet("path", <<>>, XY)
hop == CursorRelation("hop", <<>>, XY)

Relations == {edge, path, hop}
RelNamed(n) == CHOOSE r \in Relations : r.name = n
TableNames == {r.name : r \in Relations}

-----------------------------------------------------------------------------
(* Query algebra *)

Single(rel, values) == [kind |-> "Single", rel |-> rel, values |-> values]
And(left, right) == [kind |-> "And", left |-> left, right |-> right]
Or(left, right) == [kind |-> "Or", left |-> left, right |-> right]

SingleCols(q) == {a \in Range(q.values) : IsVar(a)}

RECURSIVE cols(_)
AndCols(q) == cols(q.left) \cup cols(q.right)

\* variant: the union, as for And
OrCols_Union(q) == cols(q.left) \cup cols(q.right)

OrCols(q) == cols(q.left) \cap cols(q.right)

cols(q) ==
    CASE q.kind = "Single" -> SingleCols(q)
      [] q.kind = "And" -> AndCols(q)
      [] q.kind = "Or" -> OrCols(q)

Sql(code, args) == [code |-> code, args |-> args]

\* one entry of a select list: <tbl>.<col> AS <as> (tbl "" when unqualified)
Item(tbl, col, as) == [tbl |-> tbl, col |-> col, as |-> as]
NullItem == Item("", "NULL", "NULL")

min_arg(values, a) == Min({j \in DOMAIN values : values[j] = a})

\* positions of the first occurrence of each variable, in dict order
FirstOccs(values) ==
    SelectSeq([i \in DOMAIN values |-> i],
              LAMBDA i : IsVar(values[i]) /\ min_arg(values, values[i]) = i)

value_args(values) ==
    LET consts == SelectSeq(values, LAMBDA a : ~IsVar(a))
    IN  [i \in DOMAIN consts |-> consts[i].val]

\* col_names[i] = col_names[min_arg[a]] for repeated variables, then
\* col_names[i] = ? for i in range(len(value_args))
SingleWheres(q) ==
    LET names == col_names(q.rel)
        rep == SelectSeq([i \in DOMAIN q.values |-> i],
                   LAMBDA i : IsVar(q.values[i])
                              /\ min_arg(q.values, q.values[i]) # i)
    IN  [k \in DOMAIN rep |->
            [l |-> names[rep[k]], r |-> names[min_arg(q.values, q.values[rep[k]])]]]
        \o [i \in 1..Len(value_args(q.values)) |-> [l |-> names[i], r |-> "?"]]

SingleSelects(q) ==
    LET names == col_names(q.rel)
        occ == FirstOccs(q.values)
    IN  IF Len(occ) > 0
        THEN [k \in DOMAIN occ |-> Item("", names[occ[k]], q.values[occ[k]].name)]
        ELSE <<NullItem>>

SingleSql(q) ==
    Sql([kind |-> "select", selects |-> SingleSelects(q), from |-> q.rel.name,
         wheres |-> SingleWheres(q)],
        value_args(q.values))

RECURSIVE sql(_)

\* variant: the join condition is left out
AndOn_NoCondition(q) == <<>>

AndOn(q) == SetList(cols(q.left) \cap cols(q.right))

\* variant: the right child's columns are not filtered against the left's
AndSelects_Unfiltered(q) ==
    LET lc == SetList(cols(q.left))
        rc == SetList(cols(q.right))
    IN  [i \in DOMAIN lc |-> Item("_t1", lc[i].name, lc[i].name)]
        \o [i \in DOMAIN rc |-> Item("_t2", rc[i].name, rc[i].name)]

AndSelects(q) ==
    LET lc == SetList(cols(q.left))
        rc == SelectSeq(SetList(cols(q.right)), LAMBDA c : c \notin cols(q.left))
    IN  [i \in DOMAIN lc |-> Item("_t1", lc[i].name, lc[i].name)]
        \o [i \in DOMAIN rc |-> Item("_t2", rc[i].name, rc[i].name)]

AndSql(q) ==
    LET left_sql == sql(q.left)
        right_sql == sql(q.right)
        on == AndOn(q)
    IN  Sql([kind |-> "join", selects |-> AndSelects(q),
             t1 |-> left_sql.code, t2 |-> right_sql.code,
             on |-> [i \in DOMAIN on |-> on[i].name]],
            left_sql.args \o right_sql.args)

OrNames(q) ==
    LET cs == SetList(cols(q))
    IN  [i \in DOMAIN cs |-> Item("", cs[i].name, cs[i].name)]

OrSql(q) ==
    LET left_sql == sql(q.left)
        right_sql == sql(q.right)
    IN  Sql([kind |-> "union", selects |-> OrNames(q),
             left |-> left_sql.code, right |-> right_sql.code],
            left_sql.args \o right_sql.args)

sql(q) ==
    CASE q.kind = "Single" -> SingleSql(q)
      [] q.kind = "And" -> AndSql(q)
      [] q.kind = "Or" -> OrSql(q)

-----------------------------------------------------------------------------
(* Rule compiler: head <= body *)

NoPlan == [ok |-> FALSE, error |-> "none"]
Failed(e) == [ok |-> FALSE, error |-> e]

HeadAllVars(head) == \A i \in DOMAIN head.values : IsVar(head.values[i])

HeadBound(head, body) == \A i \in DOMAIN head.values : head.values[i] \in cols(body)

\* variant: the ON CONFLICT DO NOTHING clause is never appended
RuleCode_NoConflictClause(head, body) ==
    [kind |-> "insert", into |-> head.rel.name,
     selects |-> [i \in DOMAIN head.values |-> head.values[i].name],
     from |-> sql(body).code,
     onConflict |-> FALSE]

RuleCode(head, body) ==
    [kind |-> "insert", into |-> head.rel.name,
     selects |-> [i \in DOMAIN head.values |-> head.values[i].name],
     from |-> sql(body).code,
     onConflict |-> head.rel.distinct]

Le(head, body) ==
    IF ~HeadAllVars(head) THEN Failed("AssertionError")
    ELSE IF ~HeadBound(head, body) THEN Failed("AssertionError")
    ELSE [ok |-> TRUE, code |-> RuleCode(head, body), args |-> sql(body).args]

-----------------------------------------------------------------------------
(* Storage engine (sqlite): bags of rows *)

RECURSIVE SumCopies(_, _)
SumCopies(S, B) ==
    IF S = {} THEN 0
    ELSE LET e == CHOOSE e \in S : TRUE
         IN  B[e] + SumCopies(S \ {e}, B)

BagImage(B, F(_)) ==
    LET S == BagToSet(B)
    IN  [r \in {F(e) : e \in S} |-> SumCopies({e \in S : F(e) = r}, B)]

BagFilter(B, P(_)) == [e \in {e \in BagToSet(B) : P(e)} |-> B[e]]

SeqToBag(s) == [r \in Range(s) |-> Cardinality({i \in DOMAIN s : s[i] = r})]

Pos(names, c) == Min({i \in DOMAIN names : names[i] = c})

\* SQL "=": never true of NULL
SqlEq(a, b) == a # NULL /\ b # NULL /\ a = b

OutNames(code) == [i \in DOMAIN code.selects |-> code.selects[i].as]

RECURSIVE NumParams(_)
NumParams(code) ==
    CASE code.kind = "select" ->
            Cardinality({k \in DOMAIN code.wheres : code.wheres[k].r = "?"})
      [] code.kind = "join" -> NumParams(code.t1) + NumParams(code.t2)
      [] code.kind = "union" -> NumParams(code.left) + NumParams(code.right)
      [] code.kind = "insert" -> NumParams(code.from)

\* sqlite3_prepare: syntax (no empty select list) and name resolution
RECURSIVE Prepare(_)
Prepare(code) ==
    CASE code.kind = "select" ->
            /\ Len(code.selects) > 0
            /\ code.from \in TableNames
            /\ LET cn == Range(col_names(RelNamed(code.from)))
               IN  /\ \A i \in DOMAIN code.selects :
                          code.selects[i].col \in cn \cup {"NULL"}
                   /\ \A k \in DOMAIN code.wheres :
                          /\ code.wheres[k].l \in cn
                          /\ code.wheres[k].r \in cn \cup {"?"}
      [] code.kind = "join" ->
            /\ Len(code.selects) > 0
            /\ Prepare(code.t1)
            /\ Prepare(code.t2)
            /\ \A i \in DOMAIN code.selects :
                   code.selects[i].col \in
                       Range(OutNames(IF code.selects[i].tbl = "_t1"
                                      THEN code.t1 ELSE code.t2))
            /\ \A k \in DOMAIN code.on :
                   /\ code.on[k] \in Range(OutNames(code.t1))
                   /\ code.on[k] \in Range(OutNames(code.t2))
      [] code.kind = "union" ->
            /\ Len(code.selects) > 0
            /\ Prepare(code.left)
            /\ Prepare(code.right)
            /\ \A i \in DOMAIN code.selects :
                   /\ code.selects[i].col \in Range(OutNames(code.left))
                   /\ code.selects[i].col \in Range(OutNames(code.right))
      [] code.kind = "insert" ->
            /\ Len(code.selects) > 0
            /\ code.into \in TableNames
            /\ Len(code.selects) = Len(col_names(RelNamed(code.into)))
            /\ Prepare(code.from)
            /\ \A i \in DOMAIN code.selects :
                   code.selects[i] \in Range(OutNames(code.from))

\* rows of a prepared SELECT, aligned with OutNames(code)
RECURSIVE Eval(_, _, _)
EvalSelect(code, args, tbls) ==
    LET cn == col_names(RelNamed(code.from))
        pidx(k) == Cardinality({j \in 1..k : code.wheres[j].r = "?"})
        sat(row) ==
            \A k \in DOMAIN code.wheres :
                IF code.wheres[k].r = "?"
                THEN SqlEq(row[Pos(cn, code.wheres[k].l)], args[pidx(k)])
                ELSE SqlEq(row[Pos(cn, code.wheres[k].l)],
                           row[Pos(cn, code.wheres[k].r)])
        proj(row) ==
            [i \in DOMAIN code.selects |->
                IF code.selects[i].col = "NULL" THEN NULL
                ELSE row[Pos(cn, code.selects[i].col)]]
    IN  BagImage(BagFilter(tbls[code.from], sat), proj)

EvalJoin(code, args, tbls) ==
    LET n1 == NumParams(code.t1)
        L == Eval(code.t1, SubSeq(args, 1, n1), tbls)
        R == Eval(code.t2, SubSeq(args, n1 + 1, Len(args)), tbls)
        ln == OutNames(code.t1)
        rn == OutNames(code.t2)
        match(p) ==
            \A k \in DOMAIN code.on :
                SqlEq(p[1][Pos(ln, code.on[k])], p[2][Pos(rn, code.on[k])])
        proj(p) ==
            [i \in DOMAIN code.selects |->
                IF code.selects[i].tbl = "_t1"
                THEN p[1][Pos(ln, code.selects[i].col)]
                ELSE p[2][Pos(rn, code.selects[i].col)]]
        pairs == [p \in BagToSet(L) \X BagToSet(R) |-> L[p[1]] * R[p[2]]]
    IN  BagImage(BagFilter(pairs, match), proj)

EvalUnion(code, args, tbls) ==
    LET n1 == NumParams(code.left)
        L == Eval(code.left, SubSeq(args, 1, n1), tbls)
        R == Eval(code.right, SubSeq(args, n1 + 1, Len(args)), tbls)
        ln == OutNames(code.left)
        rn == OutNames(code.right)
        projL(row) == [i \in DOMAIN code.selects |-> row[Pos(ln, code.selects[i].col)]]
        projR(row) == [i \in DOMAIN code.selects |-> row[Pos(rn, code.selects[i].col)]]
    IN  BagImage(L, projL) (+) BagImage(R, projR)

Eval(code, args, tbls) ==
    CASE code.kind = "select" -> EvalSelect(code, args, tbls)
      [] code.kind = "join" -> EvalJoin(code, args, tbls)
      [] code.kind = "union" -> EvalUnion(code, args, tbls)

\* cursor.execute of a SELECT: the rows, or the engine's error
Execute(s, tbls) ==
    IF Prepare(s.code) /\ Len(s.args) = NumParams(s.code)
    THEN [ok |-> TRUE, names |-> OutNames(s.code), rows |-> Eval(s.code, s.args, tbls)]
    ELSE [ok |-> FALSE, names |-> <<>>, rows |-> EmptyBag]

\* does the table carry the composite primary key of create_sql
HasPrimaryKey(name) == create_sql(RelNamed(name)).primaryKey

\* cursor.execute of INSERT INTO t SELECT ... [ON CONFLICT DO NOTHING]: the body
\* is read in full before the first row is written
ExecuteInsert(s, tbls) ==
    IF ~(Prepare(s.code) /\ Len(s.args) = NumParams(s.code))
    THEN [ok |-> FALSE, error |-> "OperationalError", tbls |-> tbls]
    ELSE LET bn == OutNames(s.code.from)
             proj(row) == [i \in DOMAIN s.code.selects |-> row[Pos(bn, s.code.selects[i])]]
             new == BagImage(Eval(s.code.from, s.args, tbls), proj)
             old == tbls[s.code.into]
             conflict == \E r \in BagToSet(new) : new[r] > 1 \/ BagIn(r, old)
         IN  IF ~HasPrimaryKey(s.code.into)
             THEN [ok |-> TRUE, error |-> "none",
                   tbls |-> [tbls EXCEPT ![s.code.into] = old (+) new]]
             ELSE IF s.code.onConflict
             THEN [ok |-> TRUE, error |-> "none",
                   tbls |-> [tbls EXCEPT ![s.code.into] =
                                SetToBag(BagToSet(old) \cup BagToSet(new))]]
             ELSE IF conflict
             THEN [ok |-> FALSE, error |-> "IntegrityError", tbls |-> tbls]
             ELSE [ok |-> TRUE, error |-> "none",
                   tbls |-> [tbls EXCEPT ![s.code.into] = old (+) new]]

-----------------------------------------------------------------------------
(* Relation.__call__ *)

NoCall == [rel |-> "none"]

\* variant: the arity assertion is compiled away
Invoke_Unchecked(rel, args, kwargs) ==
    LET names == col_names(rel)
        rest == SubSeq(names, Len(args) + 1, Len(names))
    IN  IF \E i \in DOMAIN rest : rest[i] \notin DOMAIN kwargs
        THEN Failed("KeyError")
        ELSE [ok |-> TRUE,
              q |-> Single(rel, args \o [i \in DOMAIN rest |-> kwargs[rest[i]]])]

Invoke(rel, args, kwargs) ==
    IF Len(args) + Cardinality(DOMAIN kwargs) # Len(rel.args)
    THEN Failed("AssertionError")
    ELSE LET names == col_names(rel)
             rest == SubSeq(names, Len(args) + 1, Len(names))
         IN  IF \E i \in DOMAIN rest : rest[i] \notin DOMAIN kwargs
             THEN Failed("KeyError")
             ELSE [ok |-> TRUE,
                   q |-> Single(rel, args \o [i \in DOMAIN rest |-> kwargs[rest[i]]])]

-----------------------------------------------------------------------------
(* Inputs *)

Pairs == Nodes \X Nodes

\* rows handed to cur.insert(edge, rows): any list of at most MaxEdges pairs
EdgeLists == UNION {[1..n -> Pairs] : n \in 0..MaxEdges}

\* the rows of the repository's tests
TestEdges == << <<1, 2>>, <<2, 3>>, <<3, 4>>, <<4, 5>>, <<5, 5>> >>

EdgeInputs == {SeqToBag(s) : s \in EdgeLists} \cup {SeqToBag(TestEdges)}

\* path(x, z) <= edge(x, z) | (edge(x, y) & path(y, z))
Clos(head) ==
    Le(Single(head, <<x, z>>),
       Or(Single(edge, <<x, z>>),
          And(Single(edge, <<x, y>>), Single(head, <<y, z>>))))

\* path(x, y) <= edge(x, y)
Copy(head) == Le(Single(head, <<x, y>>), Single(edge, <<x, y>>))

\* path(x, z) <= edge(x, y) & path(y, z)
Step(head) ==
    Le(Single(head, <<x, z>>),
       And(Single(edge, <<x, y>>), Single(head, <<y, z>>)))

\* path(x, y) <= edge(x, y) & (edge(1, 1) & edge(1, 1))
Guarded(head) ==
    Le(Single(head, <<x, y>>),
       And(Single(edge, <<x, y>>),
           And(Single(edge, <<Const(1), Const(1)>>),
               Single(edge, <<Const(1), Const(1)>>))))

Created(edges) == [n \in TableNames |-> IF n = "edge" THEN edges ELSE EmptyBag]

-----------------------------------------------------------------------------
(* Fixpoint protocol: the caller resubmits one compiled rule *)

FixInit ==
    /\ hashOrder \in Perms({x, y, z})
    /\ db = Created(EmptyBag)
    /\ committed = db
    /\ rule = NoPlan
    /\ pc = "setup"
    /\ nrun = 0
    /\ exc = "none"
    /\ stk = <<>>
    /\ plan = NoPlan
    /\ call = NoCall

\* cur.insert(edge, rows); clos = head <= body
Setup ==
    /\ pc = "setup"
    /\ \E e \in EdgeInputs : db' = Created(e)
    /\ committed' = db'
    /\ rule' \in {Clos(path), Clos(hop), Copy(hop)}
    /\ pc' = "unit"
    /\ UNCHANGED <<nrun, exc, stk, plan, call, hashOrder>>

\* cur.run(clos)
Submit ==
    /\ pc = "unit"
    /\ nrun < MaxSub
    /\ LET res == ExecuteInsert(rule, db)
       IN  /\ db' = res.tbls
           /\ exc' = res.error
    /\ nrun' = nrun + 1
    /\ UNCHANGED <<committed, pc, rule, stk, plan, call, hashOrder>>

FixNext == Setup \/ Submit

FixSpec == FixInit /\ [][FixNext]_vars

-----------------------------------------------------------------------------
(* Connection.cursor(): units of work *)

\* self.conn.commit()
Commit(working, snapshot) == working

\* variant: the except branch does not roll back
Rollback_Missing(working, snapshot) == working

\* self.conn.rollback()
Rollback(working, snapshot) == snapshot

Init ==
    /\ hashOrder \in Perms({x, y, z})
    /\ \E e \in EdgeInputs : db = Created(e)
    /\ committed = db
    /\ rule = NoPlan
    /\ pc = "idle"
    /\ nrun = 0
    /\ exc = "none"
    /\ stk = <<>>
    /\ plan = NoPlan
    /\ call = NoCall

\* with conn.cursor() as cur:
Enter ==
    /\ pc = "idle"
    /\ pc' = "unit"
    /\ nrun' = 0
    /\ exc' = "none"
    /\ UNCHANGED <<db, committed, rule, stk, plan, call, hashOrder>>

\* cur.run(r) inside the unit; an engine error leaves the with-block
CursorRun ==
    /\ pc = "unit"
    /\ nrun < MaxSub
    /\ \E r \in {Copy(path), Step(path), Guarded(path)} :
          LET res == ExecuteInsert(r, db)
          IN  IF res.ok
              THEN /\ db' = res.tbls
                   /\ nrun' = nrun + 1
                   /\ UNCHANGED <<committed, pc, exc>>
              ELSE /\ db' = Rollback(db, committed)
                   /\ exc' = res.error
                   /\ pc' = "idle"
                   /\ UNCHANGED <<committed, nrun>>
    /\ UNCHANGED <<rule, stk, plan, call, hashOrder>>

\* raise NotImplementedError inside the unit
Raise ==
    /\ pc = "unit"
    /\ db' = Rollback(db, committed)
    /\ exc' = "NotImplementedError"
    /\ pc' = "idle"
    /\ UNCHANGED <<committed, nrun, rule, stk, plan, call, hashOrder>>

\* the with-block ends normally
Exit ==
    /\ pc = "unit"
    /\ committed' = Commit(db, committed)
    /\ pc' = "idle"
    /\ UNCHANGED <<db, nrun, exc, rule, stk, plan, call, hashOrder>>

Next == Enter \/ CursorRun \/ Raise \/ Exit

Spec == Init /\ [][Next]_vars

-----------------------------------------------------------------------------
(* Properties of the fixpoint protocol *)

Compose(R, S) == {<<a[1], b[2]>> : <<a, b>> \in {p \in R \X S : p[1][2] = p[2][1]}}

RECURSIVE TransitiveClosure(_)
TransitiveClosure(R) ==
    LET n == R \cup Compose(R, R)
    IN  IF n = R THEN R ELSE TransitiveClosure(n)

HeadTable == rule.code.into
SetHead == pc = "unit" /\ RelNamed(HeadTable).distinct
BagHead == pc = "unit" /\ ~RelNamed(HeadTable).distinct
HeadRows == BagToSet(db[HeadTable])
EdgeRows == BagToSet(db["edge"])
BodyRows == Execute(Sql(rule.code.from, rule.args), db).rows

TestScenario == pc = "unit" /\ db["edge"] = SeqToBag(TestEdges) /\ rule = Clos(path)

TestClosure ==
    {<<1, 2>>, <<1, 3>>, <<1, 4>>, <<1, 5>>, <<2, 3>>, <<2, 4>>, <<2, 5>>,
     <<3, 4>>, <<3, 5>>, <<4, 5>>, <<5, 5>>}

TestTwoHops ==
    {<<1, 2>>, <<2, 3>>, <<3, 4>>, <<4, 5>>, <<5, 5>>, <<1, 3>>, <<2, 4>>, <<3, 5>>}

\* C1 (as stated): on the test's edge rows, two runs of the closure rule leave
\* path equal to the transitive closure of edge.
C1_TwoRunsGiveClosure ==
    (TestScenario /\ nrun = 2) => db["path"] = SetToBag(TestClosure)

\* C1 (amended): two runs leave path equal to the pairs joined by one or two
\* edges, a proper subset of the closure; the closure is reached by the fourth
\* run.
C1_TwoRunsGiveTwoHops ==
    /\ (TestScenario /\ nrun = 2) => db["path"] = SetToBag(TestTwoHops)
    /\ (TestScenario /\ nrun = 3) => db["path"] # SetToBag(TestClosure)
    /\ (TestScenario /\ nrun = 4) => db["path"] = SetToBag(TestClosure)

C1_Witness == TestScenario /\ nrun = 2 /\ HeadRows = TestTwoHops

\* C3: for a set-typed head, a submission never removes a row; once the rule
\* has been submitted as many times as edge has distinct rows, the head equals
\* the transitive closure of edge (the rule's least fixpoint); and a
\* submission made at the fixpoint changes nothing.
C3_SetHeadReachesFixpoint ==
    /\ [][SetHead =>
            /\ HeadRows \subseteq BagToSet(db'[HeadTable])
            /\ (HeadRows = TransitiveClosure(EdgeRows) => db' = db)]_vars
    /\ []((SetHead /\ nrun >= Cardinality(EdgeRows)) =>
            db[HeadTable] = SetToBag(TransitiveClosure(EdgeRows)))

C3_Witness ==
    /\ SetHead
    /\ nrun = 5
    /\ HeadRows = TransitiveClosure(EdgeRows)
    /\ HeadRows # EdgeRows

\* C4: for a bag-typed head, every submission whose body yields a tuple makes
\* the head strictly larger, and every tuple the head already held is inserted
\* again.
C4_BagHeadKeepsGrowing ==
    [][(BagHead /\ nrun' = nrun + 1 /\ BagToSet(BodyRows) # {}) =>
          /\ BagCardinality(db'[HeadTable]) > BagCardinality(db[HeadTable])
          /\ \A r \in HeadRows : CopiesIn(r, db'[HeadTable]) > CopiesIn(r, db[HeadTable])]_vars

C4_Witness ==
    /\ BagHead
    /\ nrun >= 2
    /\ \E r \in HeadRows : CopiesIn(r, db[HeadTable]) >= 2

-----------------------------------------------------------------------------
(* Building and compiling query expressions *)

Terms == {x, y, Const(1)}

CallArgs == UNION {[1..n -> Terms] : n \in 0..MaxArgs}

CallKwargs == UNION {[S -> Terms] : S \in SUBSET {"x", "y"}}

\* argument lists no longer than edge has columns
EdgeArgs == UNION {[1..n -> Terms] : n \in 0..Len(edge.args)}

RECURSIVE Leaves(_)
Leaves(q) == IF q.kind = "Single" THEN 1 ELSE Leaves(q.left) + Leaves(q.right)

RECURSIVE StackLeaves(_)
StackLeaves(s) == IF s = <<>> THEN 0 ELSE Leaves(s[1]) + StackLeaves(Tail(s))

CompileInit ==
    /\ hashOrder \in Perms({x, y})
    /\ db = Created(EmptyBag)
    /\ committed = db
    /\ rule = NoPlan
    /\ pc = "expr"
    /\ nrun = 0
    /\ exc = "none"
    /\ stk = <<>>
    /\ plan = NoPlan
    /\ call = NoCall

\* edge(...): a failed call abandons the expression
Call ==
    /\ plan = NoPlan
    /\ StackLeaves(stk) < MaxLeaves
    /\ \E args \in EdgeArgs, kwargs \in CallKwargs :
          LET r == Invoke(edge, args, kwargs)
          IN  IF r.ok
              THEN stk' = Append(stk, r.q) /\ exc' = "none"
              ELSE stk' = <<>> /\ exc' = r.error
    /\ UNCHANGED <<db, committed, pc, nrun, rule, plan, call, hashOrder>>

\* left & right
AndOp ==
    /\ plan = NoPlan
    /\ Len(stk) >= 2
    /\ stk' = Append(SubSeq(stk, 1, Len(stk) - 2),
                     And(stk[Len(stk) - 1], stk[Len(stk)]))
    /\ exc' = "none"
    /\ UNCHANGED <<db, committed, pc, nrun, rule, plan, call, hashOrder>>

\* left | right
OrOp ==
    /\ plan = NoPlan
    /\ Len(stk) >= 2
    /\ stk' = Append(SubSeq(stk, 1, Len(stk) - 2),
                     Or(stk[Len(stk) - 1], stk[Len(stk)]))
    /\ exc' = "none"
    /\ UNCHANGED <<db, committed, pc, nrun, rule, plan, call, hashOrder>>

\* head <= body
RuleOp ==
    /\ plan = NoPlan
    /\ Len(stk) = 2
    /\ stk[1].kind = "Single"
    /\ plan' = Le(stk[1], stk[2])
    /\ exc' = IF plan'.ok THEN "none" ELSE plan'.error
    /\ UNCHANGED <<db, committed, pc, nrun, rule, stk, call, hashOrder>>

CompileNext == Call \/ AndOp \/ OrOp \/ RuleOp

CompileSpec == CompileInit /\ [][CompileNext]_vars

-----------------------------------------------------------------------------
(* One relation call, with its arguments kept *)

CallInit ==
    /\ hashOrder \in Perms({x, y})
    /\ db = Created(EmptyBag)
    /\ committed = db
    /\ rule = NoPlan
    /\ pc = "expr"
    /\ nrun = 0
    /\ exc = "none"
    /\ stk = <<>>
    /\ plan = NoPlan
    /\ call = NoCall

Invocation ==
    /\ call = NoCall
    /\ \E rel \in {edge, path}, args \in CallArgs, kwargs \in CallKwargs :
          /\ call' = [rel |-> rel.name, args |-> args, kwargs |-> kwargs]
          /\ LET r == Invoke(rel, args, kwargs)
             IN  IF r.ok
                 THEN stk' = <<r.q>> /\ exc' = "none"
                 ELSE stk' = <<>> /\ exc' = r.error
    /\ UNCHANGED <<db, committed, pc, nrun, rule, plan, hashOrder>>

CallNext == Invocation

CallSpec == CallInit /\ [][CallNext]_vars

-----------------------------------------------------------------------------
(* Properties of units of work *)

\* C2: a unit that ends with an exception leaves every table equal to the
\* snapshot committed before it and the exception reaches the caller; a unit
\* that ends normally commits its contents; between units the tables equal the
\* committed snapshot.
C2_UnitIsAtomic ==
    /\ [][(pc = "unit" /\ pc' = "idle") =>
            IF exc' # "none"
            THEN db' = committed /\ committed' = committed
            ELSE committed' = db /\ db' = db]_vars
    /\ [](pc = "idle" => db = committed)

C2_Witness ==
    /\ pc = "idle"
    /\ exc = "NotImplementedError"
    /\ nrun >= 1
    /\ BagToSet(committed["path"]) # {}
    /\ db = committed

-----------------------------------------------------------------------------
(* Properties of the compiler *)

\* the output-variable set as the design states it
RECURSIVE OutputVars(_)
OutputVars(q) ==
    CASE q.kind = "Single" -> {q.values[i] : i \in {j \in DOMAIN q.values : IsVar(q.values[j])}}
      [] q.kind = "And" -> OutputVars(q.left) \cup OutputVars(q.right)
      [] q.kind = "Or" -> OutputVars(q.left) \cap OutputVars(q.right)

VarNames(S) == {v.name : v \in S}

\* output columns that carry an alias (the NULL placeholder carries none)
Aliases(code) == SelectSeq(OutNames(code), LAMBDA n : n # "NULL")

\* the query built last (every operand was on top when it was built)
Queries == IF stk = <<>> THEN {} ELSE {stk[Len(stk)]}

\* tables a query is run against
Contents == {Created(SetToBag(S)) : S \in {T \in SUBSET Pairs : Cardinality(T) <= 2}}

\* rows of a result as assignments of values to variable names
Assignments(res) ==
    LET ns == {n \in Range(res.names) : n # "NULL"}
    IN  {[n \in ns |-> row[Pos(res.names, n)]] : row \in BagToSet(res.rows)}

\* assignments under which a tuple of rel matches the Single
Matches(q, tbls) ==
    LET ok(row) ==
            \A i \in DOMAIN q.values :
                /\ ~IsVar(q.values[i]) => row[i] = q.values[i].val
                /\ \A j \in DOMAIN q.values : q.values[i] = q.values[j] => row[i] = row[j]
    IN  {[n \in VarNames(OutputVars(q)) |->
            row[Min({i \in DOMAIN q.values : q.values[i] = Var(n)})]] :
         row \in {r \in BagToSet(tbls[q.rel.name]) : ok(r)}}

\* C5: every constant of a Single is compared, as a bound parameter, with the
\* column at its own position, and the rows selected are the matching tuples.
C5_ConstantsFilterOwnColumn ==
    \A q \in Queries : q.kind = "Single" =>
        LET s == sql(q)
            names == col_names(q.rel)
            pidx(k) == Cardinality({j \in 1..k : s.code.wheres[j].r = "?"})
        IN  /\ \A i \in DOMAIN q.values : ~IsVar(q.values[i]) =>
                  \E k \in DOMAIN s.code.wheres :
                      /\ s.code.wheres[k].l = names[i]
                      /\ s.code.wheres[k].r = "?"
                      /\ s.args[pidx(k)] = q.values[i].val
            /\ \A tbls \in Contents :
                  Assignments(Execute(s, tbls)) = Matches(q, tbls)

\* C6: head <= body yields a plan exactly when every head value is a variable
\* of the body's output-variable set, and otherwise fails with no plan.
C6_HeadValidated ==
    plan # NoPlan =>
        LET head == stk[1]
            body == stk[2]
            valid == \A i \in DOMAIN head.values :
                        IsVar(head.values[i]) /\ head.values[i] \in OutputVars(body)
        IN  /\ plan.ok <=> valid
            /\ ~plan.ok => plan = Failed("AssertionError") /\ exc = "AssertionError"
            /\ plan.ok => /\ plan.code.kind = "insert"
                          /\ plan.code.into = head.rel.name
                          /\ plan.code.selects = [i \in DOMAIN head.values |-> head.values[i].name]
            /\ db = committed

C6_Witness ==
    /\ plan # NoPlan
    /\ ~plan.ok
    /\ stk[2].kind = "Or"
    /\ \A i \in DOMAIN stk[1].values : IsVar(stk[1].values[i])
    /\ \E i \in DOMAIN stk[1].values :
          stk[1].values[i] \in OutputVars(stk[2].left) \ OutputVars(stk[2].right)

\* C8: the aliased output columns of a compiled plan are the variables of the
\* query's output-variable set, each once; a variable shared by the children
\* of an And is taken from the left child.
C8_OutputColumnsAreCols ==
    \A q \in Queries :
        LET code == sql(q).code
            a == Aliases(code)
            out == OutputVars(q)
        IN  /\ cols(q) = out
            /\ Range(a) = VarNames(out)
            /\ Len(a) = Cardinality(out)
            /\ q.kind = "And" =>
                  \A i \in DOMAIN code.selects :
                      code.selects[i].tbl =
                          (IF Var(code.selects[i].as) \in OutputVars(q.left)
                           THEN "_t1" ELSE "_t2")

C8_Witness ==
    \E q \in Queries :
        /\ q.kind = "And"
        /\ q.left.kind = "Or"
        /\ OutputVars(q.left) \cap OutputVars(q.right) # {}
        /\ OutputVars(q.right) \ OutputVars(q.left) # {}

\* C9: the result of And(L, R) is the set of assignments over cols(L) and
\* cols(R) whose restrictions are result rows of L and of R.
C9_AndIsNaturalJoin ==
    \A q \in Queries : q.kind = "And" =>
        \A tbls \in Contents :
            LET L == Execute(sql(q.left), tbls)
                R == Execute(sql(q.right), tbls)
                J == Execute(sql(q), tbls)
                lc == VarNames(OutputVars(q.left))
                rc == VarNames(OutputVars(q.right))
            IN  (L.ok /\ R.ok) =>
                    /\ J.ok
                    /\ Assignments(J) =
                          {f \in [lc \cup rc -> Nodes] :
                              /\ [n \in lc |-> f[n]] \in Assignments(L)
                              /\ [n \in rc |-> f[n]] \in Assignments(R)}

\* C10: every query that can be built compiles to a statement the engine
\* accepts, with a non-empty select list at every nesting level.
C10_EveryPlanWellFormed ==
    \A q \in Queries : Prepare(sql(q).code)

-----------------------------------------------------------------------------
(* Properties of a relation call *)

\* C7: a call whose positional plus named arguments differ in number from the
\* relation's columns fails and builds no Single; a Single that is built has
\* one value per column, positional arguments first and each named argument
\* at the column it names.
C7_ArityChecked ==
    call # NoCall =>
        LET rel == RelNamed(call.rel)
            names == col_names(rel)
        IN  /\ Len(call.args) + Cardinality(DOMAIN call.kwargs) # Len(names) =>
                  stk = <<>> /\ exc # "none"
            /\ stk # <<>> =>
                  /\ exc = "none"
                  /\ stk[1].kind = "Single"
                  /\ stk[1].rel = rel
                  /\ Len(stk[1].values) = Len(names)
                  /\ \A i \in DOMAIN call.args : stk[1].values[i] = call.args[i]
                  /\ \A k \in DOMAIN call.kwargs :
                        stk[1].values[Pos(names, k)] = call.kwargs[k]

C7_Witness ==
    /\ call # NoCall
    /\ stk # <<>>
    /\ Len(call.args) = 1
    /\ DOMAIN call.kwargs = {"y"}

====
